---- MODULE Spec2Model ----
(***************************************************************************)
(* A model of AsphaltDBParser.py: the number parser, the page parser and   *)
(* the batch loop.                                                         *)
(*                                                                         *)
(* Text.  A line is a sequence of tokens.  A token is one character        *)
(* ("0".."9", ",", ".", "/", "(", ")", "[", "]", "=", "+", " "), one of    *)
(* the glyphs of the page written by name (Star for the star glyph, Key    *)
(* for the key glyph, Fuel for the fuel-pump glyph, Nbsp for U+00A0), or a *)
(* run of letters kept whole ("Stock", "km", "Epics:", "fuels", ...).      *)
(* A whole-word token holds no digit, no blank and none of the characters  *)
(* listed above, and no word of a page extends a word that a pattern of    *)
(* the source names, so every regular expression of the source reads a     *)
(* word either as the literal it names or as a run of other characters.    *)
(* The sign and underscore characters that Python's int() accepts are not  *)
(* in the alphabet.                                                        *)
(*                                                                         *)
(* Numbers.  parse_number returns an int or a float; the model keeps a     *)
(* value as [isint, num, scale], standing for num / 10^scale with the      *)
(* trailing zeros of the fraction removed, so that two values are equal    *)
(* exactly when the Python values are equal (within the digits used).      *)
(***************************************************************************)
EXTENDS Integers, Sequences, FiniteSets, TLC

VARIABLES
    s,          \* parse_number: the argument
    numPc,      \* parse_number: "ready" | "done"
    numResult,  \* parse_number: what the call gave (a value or ValueError)
    text,       \* parse_mei_page: the raw lines of the page text
    pagePc,     \* parse_mei_page: "ready" | "returned" | "raised"
    car,        \* parse_mei_page: the record returned (<<>> before, or on a raise)
    pageErr,    \* parse_mei_page: which ValueError was raised ("" when none)
    car_ids,    \* __main__: the sorted ids to process
    idx,        \* __main__: how many ids the for loop has taken
    results,    \* __main__: the records of the pages that parsed
    errors,     \* __main__: the ids that failed, in the order they failed
    log,        \* __main__: the printed [OK ]/[ERR] lines, in order
    mainPc      \* __main__: "loop" | "done"

vars == <<s, numPc, numResult, text, pagePc, car, pageErr, car_ids, idx, results, errors, log, mainPc>>

numVars == <<s, numPc, numResult>>
pageVars == <<text, pagePc, car, pageErr>>
mainVars == <<car_ids, idx, results, errors, log, mainPc>>

-----------------------------------------------------------------------------
(* Tokens *)

Star == "STAR"
Key == "KEY"
Fuel == "FUEL"
Nbsp == "NBSP"

Digits == {"0", "1", "2", "3", "4", "5", "6", "7", "8", "9"}

DigitVal(c) ==
    CASE c = "0" -> 0 [] c = "1" -> 1 [] c = "2" -> 2 [] c = "3" -> 3
      [] c = "4" -> 4 [] c = "5" -> 5 [] c = "6" -> 6 [] c = "7" -> 7
      [] c = "8" -> 8 [] c = "9" -> 9

IsDigit(c) == c \in Digits

\* \s of the regular expressions: a blank or a no-break space
IsSpace(c) == c \in {" ", Nbsp}

AllDigits(w) == \A i \in 1..Len(w) : IsDigit(w[i])

\* str.strip()
RECURSIVE Strip(_)
Strip(w) ==
    IF w = <<>> THEN <<>>
    ELSE IF IsSpace(w[1]) THEN Strip(Tail(w))
    ELSE IF IsSpace(w[Len(w)]) THEN Strip(SubSeq(w, 1, Len(w) - 1))
    ELSE w

\* int() of a string of decimal digits
RECURSIVE IntOf(_)
IntOf(w) ==
    IF w = <<>> THEN 0
    ELSE IntOf(SubSeq(w, 1, Len(w) - 1)) * 10 + DigitVal(w[Len(w)])

\* str.split(sep): the parts between the separators, empty parts kept
RECURSIVE Split(_, _)
Split(w, sep) ==
    IF \A i \in 1..Len(w) : w[i] # sep THEN <<w>>
    ELSE LET p == CHOOSE i \in 1..Len(w) :
                      w[i] = sep /\ \A j \in 1..(i - 1) : w[j] # sep
         IN <<SubSeq(w, 1, p - 1)>> \o Split(SubSeq(w, p + 1, Len(w)), sep)

\* "".join(parts)
RECURSIVE Join(_)
Join(parts) == IF parts = <<>> THEN <<>> ELSE parts[1] \o Join(Tail(parts))

\* str.replace(c, ""): the tokens of w that are not in drop
RECURSIVE Without(_, _)
Without(w, drop) ==
    IF w = <<>> THEN <<>>
    ELSE IF w[1] \in drop THEN Without(Tail(w), drop)
    ELSE <<w[1]>> \o Without(Tail(w), drop)

RECURSIVE Pow10(_)
Pow10(k) == IF k = 0 THEN 1 ELSE 10 * Pow10(k - 1)

-----------------------------------------------------------------------------
(* Values *)

ValueError == [isint |-> FALSE, num |-> -1, scale |-> 0]

IsValue(v) == v.num >= 0

IntValue(n) == [isint |-> TRUE, num |-> n, scale |-> 0]

\* float(left + "." + right): num / 10^scale, trailing zeros dropped
RECURSIVE Reduce(_, _)
Reduce(n, k) ==
    IF k > 0 /\ n % 10 = 0 THEN Reduce(n \div 10, k - 1)
    ELSE [isint |-> FALSE, num |-> n, scale |-> k]

FloatValue(left, right) == Reduce(IntOf(left \o right), Len(right))

\* float(x) of a parse_number result
ToFloat(v) == [isint |-> FALSE, num |-> v.num, scale |-> v.scale]

\* int(x) of a parse_number result: the fraction is cut off
ToInt(v) == v.num \div Pow10(v.scale)

\* int(str): ValueError unless the string is a run of digits
PyInt(w) == IF w # <<>> /\ AllDigits(w) THEN IntValue(IntOf(w)) ELSE ValueError

-----------------------------------------------------------------------------
(* parse_number *)

\* re.fullmatch(r"\d{1,3}(\.\d{3})+", w)
IsThousandDot(w) ==
    LET parts == Split(w, ".")
    IN /\ Len(parts) >= 2
       /\ Len(parts[1]) \in 1..3
       /\ \A i \in 2..Len(parts) : Len(parts[i]) = 3
       /\ \A i \in 1..Len(parts) : AllDigits(parts[i])

\* re.fullmatch(r"\d+,\d+", w)
IsDigitsCommaDigits(w) ==
    LET parts == Split(w, ",")
    IN /\ Len(parts) = 2
       /\ \A i \in 1..2 : parts[i] # <<>> /\ AllDigits(parts[i])

\* re.fullmatch(r"\d+\.\d+", w)
IsDigitsDotDigits(w) ==
    LET parts == Split(w, ".")
    IN /\ Len(parts) = 2
       /\ \A i \in 1..2 : parts[i] # <<>> /\ AllDigits(parts[i])

\* the "," branch when the string is not digits,digits
CommaGroups(w) ==
    LET parts == Split(w, ",")
    IN \A i \in 2..Len(parts) : Len(parts[i]) <= 3

\* rules 3 and 4, and the final raise
PlainNumber(w) ==
    IF IsDigitsDotDigits(w)
    THEN FloatValue(Split(w, ".")[1], Split(w, ".")[2])
    ELSE IF w # <<>> /\ AllDigits(w) THEN IntValue(IntOf(w))
    ELSE ValueError

parse_number(str) ==
    LET w == Strip(str)
        hasComma == \E i \in 1..Len(w) : w[i] = ","
        hasDot == \E i \in 1..Len(w) : w[i] = "."
    IN IF IsThousandDot(w) THEN IntValue(IntOf(Without(w, {"."})))
       ELSE IF hasComma /\ ~hasDot
       THEN IF IsDigitsCommaDigits(w)
            THEN LET left == Split(w, ",")[1]
                     right == Split(w, ",")[2]
                 IN IF Len(right) = 3 THEN IntValue(IntOf(left \o right))
                    ELSE FloatValue(left, right)
            ELSE IF CommaGroups(w) THEN PyInt(Join(Split(w, ",")))
            ELSE PlainNumber(w)
       ELSE PlainNumber(w)

-----------------------------------------------------------------------------
(* Lines *)

\* the token at position i, "" beyond the ends of the line
At(l, i) == IF i \in 1..Len(l) THEN l[i] ELSE ""

HasPrefix(l, p) == Len(l) >= Len(p) /\ SubSeq(l, 1, Len(p)) = p

\* the last position of the run of tokens of class C that starts at p (p - 1: none)
RECURSIVE RunEnd(_, _, _)
RunEnd(l, p, C) == IF At(l, p) \in C THEN RunEnd(l, p + 1, C) ELSE p - 1

\* the first position at or after p that holds no white space
RECURSIVE SkipSpaces(_, _)
SkipSpaces(l, p) == IF IsSpace(At(l, p)) THEN SkipSpaces(l, p + 1) ELSE p

\* the smallest member of a non-empty set of positions
Least(P) == CHOOSE p \in P : \A q \in P : p <= q

\* re.sub(r"\s+", " ", line): every run of white space becomes one blank
RECURSIVE Collapse(_)
Collapse(l) ==
    IF l = <<>> THEN <<>>
    ELSE IF IsSpace(l[1])
    THEN <<" ">> \o Collapse(SubSeq(l, SkipSpaces(l, 1), Len(l)))
    ELSE <<l[1]>> \o Collapse(Tail(l))

normalize_line(line) == Strip(Collapse(line))

\* lines = [normalize_line(l) for l in lines_raw if normalize_line(l)]
RECURSIVE NormalizedLines(_)
NormalizedLines(raw) ==
    IF raw = <<>> THEN <<>>
    ELSE LET l == normalize_line(raw[1])
         IN (IF l = <<>> THEN <<>> ELSE <<l>>) \o NormalizedLines(Tail(raw))

\* the first of a set of line numbers, 0 when the set is empty
FirstOf(I) == IF I = {} THEN 0 ELSE Least(I)

\* the numbers of the lines
LineNumbers(lines) == 1..Len(lines)

-----------------------------------------------------------------------------
(* Section anchors *)

\* re.fullmatch(r"[DCBAS]", l)
IsClassLine(l) == Len(l) = 1 /\ l[1] \in {"D", "C", "B", "A", "S"}

\* set(l) == {star}; also re.fullmatch(r"star+", l)
IsStarLine(l) == l # <<>> /\ \A i \in 1..Len(l) : l[i] = Star

\* l.startswith(fuel)
IsFuelLine(l) == At(l, 1) = Fuel

\* re.search(r"fuel\s+(\d+)\s+fuels", fuel_line): the number, or <<>> for None
FuelOf(l) ==
    LET Ok(p) ==
            LET d == SkipSpaces(l, p + 1)
                e == RunEnd(l, d, Digits)
                f == SkipSpaces(l, e + 1)
            IN /\ l[p] = Fuel
               /\ d > p + 1
               /\ e >= d
               /\ f > e + 1
               /\ At(l, f) = "fuels"
        P == {p \in 1..Len(l) : Ok(p)}
    IN IF P = {} THEN <<>>
       ELSE LET d == SkipSpaces(l, Least(P) + 1)
            IN <<IntOf(SubSeq(l, d, RunEnd(l, d, Digits)))>>

-----------------------------------------------------------------------------
(* Unlock cost *)

\* re.search(r"\d+/\d+/", w)
HasRunThenSlash(w) ==
    \E i, j \in 1..Len(w) :
        /\ i + 1 < j
        /\ w[i] = "/" /\ w[j] = "/"
        /\ IsDigit(At(w, i - 1))
        /\ \A k \in (i + 1)..(j - 1) : IsDigit(w[k])

\* re.fullmatch(r"\d+(?:/\d+)+", w)
IsBareRun(w) ==
    LET parts == Split(w, "/")
    IN /\ Len(parts) >= 2
       /\ \A i \in 1..Len(parts) : parts[i] # <<>> /\ AllDigits(parts[i])

\* the candidate test of the scan, on the line without its key glyphs
IsBpCandidate(l) ==
    LET cand_clean == Without(l, {Key})
    IN HasRunThenSlash(cand_clean) \/ IsBareRun(cand_clean)

\* the integers of the greedy match of \d+(?:/\d+)* that starts at p
RECURSIVE RunInts(_, _)
RunInts(w, p) ==
    LET e == RunEnd(w, p, Digits)
        v == IntOf(SubSeq(w, p, e))
    IN IF At(w, e + 1) = "/" /\ IsDigit(At(w, e + 2))
       THEN <<v>> \o RunInts(w, e + 2)
       ELSE <<v>>

\* re.search(r"(\d+(?:/\d+)+)", w): the integers of the leftmost match, <<>> for no match
FirstRunInts(w) ==
    LET Ok(p) ==
            LET e == RunEnd(w, p, Digits)
            IN IsDigit(w[p]) /\ At(w, e + 1) = "/" /\ IsDigit(At(w, e + 2))
        P == {p \in 1..Len(w) : Ok(p)}
    IN IF P = {} THEN <<>> ELSE RunInts(w, Least(P))

\* re.search(r"\((?:[^\d]*)(\d+)[^\d]*\)", l): <<the integer>>, <<>> for no match
ParenTotal(l) ==
    LET FirstDigit(p) ==
            IF \E q \in (p + 1)..Len(l) : IsDigit(l[q])
            THEN Least({q \in (p + 1)..Len(l) : IsDigit(l[q])})
            ELSE 0
        Ok(p) ==
            LET q == FirstDigit(p)
                r == RunEnd(l, q, Digits)
            IN /\ l[p] = "("
               /\ q > 0
               /\ \E t \in (r + 1)..Len(l) :
                      l[t] = ")" /\ \A j \in (r + 1)..(t - 1) : ~IsDigit(l[j])
        P == {p \in 1..Len(l) : Ok(p)}
    IN IF P = {} THEN <<>>
       ELSE LET q == FirstDigit(Least(P))
            IN <<IntOf(SubSeq(l, q, RunEnd(l, q, Digits)))>>

\* extract_bp_from_two_lines; line2 is <<>> for None.  found is FALSE for a None result
extract_bp_from_two_lines(line1, line2) ==
    LET l1_clean == Without(line1, {Key, "+"})
        reqs == FirstRunInts(l1_clean)
        total == IF ParenTotal(line1) # <<>> THEN ParenTotal(line1) ELSE ParenTotal(line2)
    IN [found |-> reqs # <<>>, reqs |-> reqs, total |-> total]

\* section 4 of parse_mei_page: the scan from line i on, stopping at the first
\* candidate line from which a run is extracted
RECURSIVE ScanBp(_, _)
ScanBp(lines, i) ==
    IF i > Len(lines)
    THEN [bp_reqs |-> <<>>, bp_total |-> <<>>, uses_key |-> FALSE]
    ELSE LET l == lines[i]
             next_line == IF i + 1 <= Len(lines) THEN lines[i + 1] ELSE <<>>
             extracted == extract_bp_from_two_lines(l, next_line)
         IN IF IsBpCandidate(l) /\ extracted.found
            THEN [bp_reqs |-> extracted.reqs,
                  bp_total |-> extracted.total,
                  uses_key |-> (\E k \in 1..Len(l) : l[k] = Key)
                                   \/ (\E k \in 1..Len(next_line) : next_line[k] = Key)]
            ELSE ScanBp(lines, i + 1)

\* itertools.accumulate
RECURSIVE Accumulate(_)
Accumulate(xs) ==
    IF xs = <<>> THEN <<>>
    ELSE LET front == Accumulate(SubSeq(xs, 1, Len(xs) - 1))
         IN Append(front, (IF front = <<>> THEN 0 ELSE front[Len(front)]) + xs[Len(xs)])

-----------------------------------------------------------------------------
(* Premium parts *)

IsEpicsLine(l) == At(l, 1) = "Epics:"

\* re.search(r"(\d+)", l): the first run of digits as an integer, 0 when the line has none
\* (epic_per_stat keeps its initial 0 then)
FirstInt(l) ==
    IF \E p \in 1..Len(l) : IsDigit(l[p])
    THEN LET p == Least({q \in 1..Len(l) : IsDigit(l[q])})
         IN IntOf(SubSeq(l, p, RunEnd(l, p, Digits)))
    ELSE 0

\* section 5 of parse_mei_page: only the first "Epics:" line counts (break)
ScanEpics(lines) ==
    LET i == FirstOf({n \in LineNumbers(lines) : IsEpicsLine(lines[n])})
        price == IF i > 0 /\ i + 2 <= Len(lines) THEN parse_number(lines[i + 2]) ELSE ValueError
    IN [epic_per_stat |-> IF i > 0 /\ i + 1 <= Len(lines) THEN FirstInt(lines[i + 1]) ELSE 0,
        epic_price_total |-> IF IsValue(price) THEN price ELSE IntValue(0)]

-----------------------------------------------------------------------------
(* Stat blocks *)

MaxWoEpics == <<"Max", " ", "w", "/", "o", " ", "epics">>

NumChars == Digits \cup {".", ","}

\* the length of the label alternative (Stock|Gold|Max w/o epics|star+) at the start of
\* the line, 0 when none matches
LabelLen(l) ==
    IF HasPrefix(l, <<"Stock">>) \/ HasPrefix(l, <<"Gold">>) THEN 1
    ELSE IF HasPrefix(l, MaxWoEpics) THEN Len(MaxWoEpics)
    ELSE RunEnd(l, 1, {Star})

\* re.match(r"^(Stock|Gold|Max w/o epics|star+)\s*\[(\d+)\]$", l)
IsRankAt(l, b) ==
    /\ At(l, b) = "["
    /\ Len(l) >= b + 2
    /\ l[Len(l)] = "]"
    /\ AllDigits(SubSeq(l, b + 1, Len(l) - 1))

IsHeader(l) == LabelLen(l) > 0 /\ IsRankAt(l, SkipSpaces(l, LabelLen(l) + 1))

HeaderLabel(l) == SubSeq(l, 1, LabelLen(l))

HeaderRank(l) == IntOf(SubSeq(l, SkipSpaces(l, LabelLen(l) + 1) + 1, Len(l) - 1))

HeaderKind(l) ==
    IF HeaderLabel(l) = <<"Stock">> THEN "stock"
    ELSE IF HeaderLabel(l) = <<"Gold">> THEN "gold"
    ELSE IF HeaderLabel(l) = MaxWoEpics THEN "max_wo_epics"
    ELSE "star"

\* the unit km/h at position k
IsSpeedUnitAt(l, k) == At(l, k) = "km" /\ At(l, k + 1) = "/" /\ At(l, k + 2) = "h"

\* ([\d\.,]+)\s*km/h matches from position p
IsSpeedAt(l, p) ==
    l[p] \in NumChars /\ IsSpeedUnitAt(l, SkipSpaces(l, RunEnd(l, p, NumChars) + 1))

\* the group of the leftmost match, which starts at the least position of P
NumberToken(l, P) ==
    IF P = {} THEN <<>> ELSE <<SubSeq(l, Least(P), RunEnd(l, Least(P), NumChars))>>

\* re.search(r"([\d\.,]+)\s*km/h", l), else re.search(r"([\d\.,]+)", l):
\* <<the group>>, <<>> when the line has no numeric token
MetricToken(l) ==
    IF \E p \in 1..Len(l) : IsSpeedAt(l, p)
    THEN NumberToken(l, {p \in 1..Len(l) : IsSpeedAt(l, p)})
    ELSE NumberToken(l, {p \in 1..Len(l) : l[p] \in NumChars})

\* parse_number(m.group(1)) of a line's token: <<the result>>, <<>> when there is no token
MetricOf(tok) == IF tok = <<>> THEN <<>> ELSE <<parse_number(tok[1])>>

RECURSIVE ReadMetrics(_, _, _)
RECURSIVE ReadMetric(_, _, _, _)

\* the body of the while loop on line i, v being the metric read on that line
ReadMetric(lines, i, stats, v) ==
    IF v = <<>> THEN ReadMetrics(lines, i + 1, stats)
    ELSE IF ~IsValue(v[1]) THEN [stats |-> stats, i |-> i, raised |-> TRUE]
    ELSE ReadMetrics(lines, i + 1, Append(stats, v[1]))

\* the while loop of parse_stat_block, from line i with the metrics read so far
ReadMetrics(lines, i, stats) ==
    IF i > Len(lines) \/ Len(stats) >= 4 \/ IsHeader(lines[i])
    THEN [stats |-> stats, i |-> i, raised |-> FALSE]
    ELSE ReadMetric(lines, i, stats, MetricOf(MetricToken(lines[i])))

\* StatEntry(kind, label, rank, top_speed, accel, handling, nitro)
StatEntry(header, stats) ==
    [kind |-> HeaderKind(header),
     label |-> HeaderLabel(header),
     rank |-> HeaderRank(header),
     top_speed |-> ToFloat(stats[1]),
     accel |-> ToFloat(stats[2]),
     handling |-> ToFloat(stats[3]),
     nitro |-> ToFloat(stats[4])]

\* the end of parse_stat_block, m being what the while loop gave
BlockOf(header, m) ==
    IF m.raised \/ Len(m.stats) # 4 THEN [entry |-> <<>>, i |-> m.i, raised |-> m.raised]
    ELSE [entry |-> <<StatEntry(header, m.stats)>>, i |-> m.i, raised |-> FALSE]

\* parse_stat_block, called on a header line: entry is <<>> for None
parse_stat_block(lines, start_idx) ==
    IF ~IsHeader(lines[start_idx]) THEN [entry |-> <<>>, i |-> start_idx, raised |-> FALSE]
    ELSE BlockOf(lines[start_idx], ReadMetrics(lines, start_idx + 1, <<>>))

RECURSIVE ScanStats(_, _, _)
RECURSIVE AfterBlock(_, _, _, _)

\* the header branch of the while loop, r being what parse_stat_block gave on line i
AfterBlock(lines, i, entries, r) ==
    IF r.raised THEN [stat_entries |-> entries, raised |-> TRUE]
    ELSE IF r.entry # <<>> THEN ScanStats(lines, r.i, entries \o r.entry)
    ELSE ScanStats(lines, i + 1, entries)

\* section 6 of parse_mei_page: the while loop from line i with the entries captured so far
ScanStats(lines, i, entries) ==
    IF i > Len(lines) THEN [stat_entries |-> entries, raised |-> FALSE]
    ELSE IF IsHeader(lines[i]) THEN AfterBlock(lines, i, entries, parse_stat_block(lines, i))
    ELSE ScanStats(lines, i + 1, entries)

-----------------------------------------------------------------------------
(* Stat aggregation *)

OfKind(entries, kind) == SelectSeq(entries, LAMBDA e : e.kind = kind)

\* next((e for e in stat_entries if e.kind == kind), None): <<the entry>> or <<>>
FirstOfKind(entries, kind) ==
    IF OfKind(entries, kind) = <<>> THEN <<>> ELSE <<OfKind(entries, kind)[1]>>

\* faulty variant of BestByStar: the rank test is dropped, the last block of the star count wins
RECURSIVE BestByStarLast(_, _)
BestByStarLast(star_entries, sc) ==
    IF star_entries = <<>> THEN <<>>
    ELSE LET cur == BestByStarLast(SubSeq(star_entries, 1, Len(star_entries) - 1), sc)
             e == star_entries[Len(star_entries)]
         IN IF Len(e.label) = sc THEN <<e>> ELSE cur

\* best_by_star.get(sc) after the loop over star_entries: <<the entry>> or <<>>
RECURSIVE BestByStar(_, _)
BestByStar(star_entries, sc) ==
    IF star_entries = <<>> THEN <<>>
    ELSE LET cur == BestByStar(SubSeq(star_entries, 1, Len(star_entries) - 1), sc)
             e == star_entries[Len(star_entries)]
         IN IF Len(e.label) = sc /\ (cur = <<>> \/ e.rank > cur[1].rank) THEN <<e>> ELSE cur

StatRecord(star, type, e) ==
    [star |-> star, type |-> type, rank |-> e.rank, top_speed |-> e.top_speed,
     accel |-> e.accel, handling |-> e.handling, nitro |-> e.nitro]

\* faulty variant of FullEntries: range(1, max_star + 1), one star too far
RECURSIVE FullEntriesThroughMax(_, _, _)
FullEntriesThroughMax(star_entries, star, max_star) ==
    IF star > max_star THEN <<>>
    ELSE LET e == BestByStar(star_entries, star)
         IN (IF e = <<>> THEN <<>> ELSE <<StatRecord(star, "full", e[1])>>)
                \o FullEntriesThroughMax(star_entries, star + 1, max_star)

\* the full entries for star = from .. max_star - 1
RECURSIVE FullEntries(_, _, _)
FullEntries(star_entries, star, max_star) ==
    IF star >= max_star THEN <<>>
    ELSE LET e == BestByStar(star_entries, star)
         IN (IF e = <<>> THEN <<>> ELSE <<StatRecord(star, "full", e[1])>>)
                \o FullEntries(star_entries, star + 1, max_star)

\* stat_list of parse_mei_page
BuildStatList(stat_entries, max_star, has_epic) ==
    LET stock_entry == FirstOfKind(stat_entries, "stock")
        gold_entry == FirstOfKind(stat_entries, "gold")
        max_wo_entry == FirstOfKind(stat_entries, "max_wo_epics")
        star_entries == OfKind(stat_entries, "star")
    IN (IF stock_entry # <<>> THEN <<StatRecord(1, "stock", stock_entry[1])>> ELSE <<>>)
       \o FullEntries(star_entries, 1, max_star)
       \o (IF has_epic /\ max_wo_entry # <<>>
           THEN <<StatRecord(max_star, "max_wo_epics", max_wo_entry[1])>> ELSE <<>>)
       \o (IF gold_entry # <<>> THEN <<StatRecord(max_star, "gold", gold_entry[1])>> ELSE <<>>)

-----------------------------------------------------------------------------
(* Upgrade cost *)

CostChars == Digits \cup {","}

\* re.search(anchor + r"\s*([\d,]+)", l): <<the group>>, <<>> for no match
CostToken(l, anchor) ==
    LET P == {p \in 1..Len(l) : l[p] = anchor /\ At(l, SkipSpaces(l, p + 1)) \in CostChars}
    IN IF P = {} THEN <<>>
       ELSE LET d == SkipSpaces(l, Least(P) + 1)
            IN <<SubSeq(l, d, RunEnd(l, d, CostChars))>>

\* section 7 of parse_mei_page: the for loop from line i
RECURSIVE ScanUpgrades(_, _, _, _)
ScanUpgrades(lines, i, in_block, totals) ==
    IF i > Len(lines) THEN [star_full_totals |-> totals, raised |-> FALSE]
    ELSE LET l == lines[i]
             m == CostToken(l, "=")
             total_full == parse_number(m[1])
         IN IF IsStarLine(l) THEN ScanUpgrades(lines, i + 1, TRUE, totals)
            ELSE IF in_block /\ At(l, 1) = "="
            THEN IF m = <<>> THEN ScanUpgrades(lines, i + 1, FALSE, totals)
                 ELSE IF ~IsValue(total_full) THEN [star_full_totals |-> totals, raised |-> TRUE]
                 ELSE ScanUpgrades(lines, i + 1, FALSE, Append(totals, ToInt(total_full)))
            ELSE ScanUpgrades(lines, i + 1, in_block, totals)

IsTotalLine(l) == At(l, 1) = "Total:"

\* upgrade_all_full: <<the value>>, <<>> for None; raised when parse_number rejects the token
ScanTotal(lines) ==
    LET i == FirstOf({n \in LineNumbers(lines) : IsTotalLine(lines[n])})
        m == IF i > 0 THEN CostToken(lines[i], "Total:") ELSE <<>>
        v == parse_number(m[1])
    IN IF m = <<>> THEN [upgrade_all_full |-> <<>>, raised |-> FALSE]
       ELSE IF ~IsValue(v) THEN [upgrade_all_full |-> <<>>, raised |-> TRUE]
       ELSE [upgrade_all_full |-> <<v>>, raised |-> FALSE]

\* faulty variant of PerStar: the previous total is not subtracted
PerStarNoDelta(upgrade_cumulative) ==
    [k \in 1..Len(upgrade_cumulative) |-> upgrade_cumulative[k]]

\* upgrade_per_star from upgrade_cumulative
PerStar(upgrade_cumulative) ==
    [k \in 1..Len(upgrade_cumulative) |->
        IF k = 1 THEN upgrade_cumulative[1]
        ELSE upgrade_cumulative[k] - upgrade_cumulative[k - 1]]

-----------------------------------------------------------------------------
(* parse_mei_page *)

\* faulty variant of HasEpic: >= for >, so a quantity of 0 counts as a premium-part tier
HasEpicFromZero(epic_per_stat) == epic_per_stat >= 0

\* faulty variant of NoStatEntries: the check for an empty stat_entries is missing
NoStatEntriesUnchecked(stat_entries) == FALSE

\* has_epic = epic_per_stat > 0
HasEpic(epic_per_stat) == epic_per_stat > 0

\* if not stat_entries: raise
NoStatEntries(stat_entries) == stat_entries = <<>>

\* The result is [raised, car]: raised names the ValueError ("" when the call returns):
\* "class", "star", "stat" for the three raise statements, "number" for a ValueError
\* that leaves parse_number uncaught.  An unset optional (None, or a key that is not
\* set) is <<>>, a set one is <<value>>.
Raise(why) == [raised |-> why, car |-> <<>>]

\* the car dict built at the end of parse_mei_page from what the sections gave
CarDict(lines, car_id, idx_class, star_line, fuel_line, bp, epic, stats, upg, tot) ==
    [id |-> car_id,
     unlock_method |-> IF bp.bp_reqs = <<>> THEN "none"
                       ELSE IF bp.uses_key THEN "key" ELSE "bp",
     class |-> lines[idx_class],
     name |-> lines[idx_class + 1],
     max_star |-> Len(lines[star_line]),
     fuel |-> IF fuel_line > 0 THEN FuelOf(lines[fuel_line]) ELSE <<>>,
     bp_requirements |-> bp.bp_reqs,
     bp_cumulative |-> Accumulate(bp.bp_reqs),
     bp_all |-> IF bp.bp_reqs = <<>> THEN <<>> ELSE bp.bp_total,
     epic_importparts_amount |-> epic.epic_per_stat,
     epic_price |-> epic.epic_price_total,
     stat |-> BuildStatList(stats.stat_entries, Len(lines[star_line]),
                            HasEpic(epic.epic_per_stat)),
     upgrade_cumulative |-> upg.star_full_totals,
     upgrade_per_star |-> PerStar(upg.star_full_totals),
     upgrade_all |-> IF tot.upgrade_all_full = <<>> THEN <<>>
                     ELSE <<ToInt(tot.upgrade_all_full[1])>>]

\* the raise statements of parse_mei_page in the order the code reaches them, then
\* the return
ParseLines(lines, car_id, idx_class, star_line, fuel_line, bp, epic, stats, upg, tot) ==
    IF idx_class = 0 \/ idx_class + 1 > Len(lines) THEN Raise("class")
    ELSE IF star_line = 0 THEN Raise("star")
    ELSE IF stats.raised THEN Raise("number")
    ELSE IF NoStatEntries(stats.stat_entries) THEN Raise("stat")
    ELSE IF upg.raised \/ tot.raised THEN Raise("number")
    ELSE [raised |-> "",
          car |-> CarDict(lines, car_id, idx_class, star_line, fuel_line,
                          bp, epic, stats, upg, tot)]

\* sections 1 to 8 on the normalized lines
ParseSections(lines, car_id) ==
    ParseLines(lines, car_id,
               FirstOf({n \in LineNumbers(lines) : IsClassLine(lines[n])}),
               FirstOf({n \in LineNumbers(lines) : IsStarLine(lines[n])}),
               FirstOf({n \in LineNumbers(lines) : IsFuelLine(lines[n])}),
               ScanBp(lines, 1),
               ScanEpics(lines),
               ScanStats(lines, 1, <<>>),
               ScanUpgrades(lines, 1, FALSE, <<>>),
               ScanTotal(lines))

parse_mei_page(raw, car_id) == ParseSections(NormalizedLines(raw), car_id)

-----------------------------------------------------------------------------
(* Bounded sets of strings and pages *)

RECURSIVE SeqsUpTo(_, _)
SeqsUpTo(S, n) ==
    IF n = 0 THEN {<<>>}
    ELSE LET shorter == SeqsUpTo(S, n - 1)
         IN shorter \cup {Append(w, c) : w \in {x \in shorter : Len(x) = n - 1}, c \in S}

\* the members of a finite set of integers in ascending order
RECURSIVE Ascending(_)
Ascending(I) == IF I = {} THEN <<>> ELSE <<Least(I)>> \o Ascending(I \ {Least(I)})

\* the lines of a sequence of chunks, a chunk being a sequence of lines
RECURSIVE Flatten(_)
Flatten(chunks) == IF chunks = <<>> THEN <<>> ELSE chunks[1] \o Flatten(Tail(chunks))

ClassLine == <<"S">>
NameLine == <<"Car">>
StarLine(n) == [i \in 1..n |-> Star]
Header(label, rank) == label \o <<" ", "[">> \o rank \o <<"]">>
SpeedLine == <<"1", "8", "0", " ", "km", "/", "h">>

\* a header and its four metric lines
Block(label, rank) ==
    <<Header(label, rank), SpeedLine, <<"4", ".", "5">>, <<"5", "0">>, <<"6", "0">>>>

\* the lines every page that parses starts with here: class, name, star count
Opening(n) == <<ClassLine, NameLine, StarLine(n)>>

IdleNum == s = <<>> /\ numPc = "idle" /\ numResult = ValueError
IdlePage == text = <<>> /\ pagePc = "idle" /\ car = <<>> /\ pageErr = ""
IdleMain ==
    /\ car_ids = <<>> /\ idx = 0 /\ results = <<>> /\ errors = <<>>
    /\ log = <<>> /\ mainPc = "idle"

-----------------------------------------------------------------------------
(* parse_number: one call on a string of the alphabet *)

MaxTokenLen == 4

NumberAlphabet == {"1", "2", "0", ",", ".", "a"}

InitNum ==
    /\ s \in SeqsUpTo(NumberAlphabet, MaxTokenLen)
    /\ numPc = "ready"
    /\ numResult = ValueError
    /\ IdlePage
    /\ IdleMain

CallParseNumber ==
    /\ numPc = "ready"
    /\ numResult' = parse_number(s)
    /\ numPc' = "done"
    /\ UNCHANGED <<s, pageVars, mainVars>>

NextNum == CallParseNumber

SpecNum == InitNum /\ [][NextNum]_vars

-----------------------------------------------------------------------------
(* parse_mei_page: one call on a page *)

PageId == 1

ReadyPage == pagePc = "ready" /\ car = <<>> /\ pageErr = "" /\ IdleNum /\ IdleMain

\* the call ends with r: the record is returned or the ValueError is raised
EndParsePage(r) ==
    /\ pagePc' = IF r.raised = "" THEN "returned" ELSE "raised"
    /\ car' = r.car
    /\ pageErr' = r.raised

CallParsePage ==
    /\ pagePc = "ready"
    /\ EndParsePage(parse_mei_page(text, PageId))
    /\ UNCHANGED <<text, numVars, mainVars>>

NextPage == CallParsePage

\* what the parser works on, and the stat blocks it captured
PageLines == NormalizedLines(text)
Captured == ScanStats(PageLines, 1, <<>>).stat_entries
CapturedOf(kind) == OfKind(Captured, kind)
CapturedStars(n) == SelectSeq(CapturedOf("star"), LAMBDA e : Len(e.label) = n)

StatIdx == 1..Len(car.stat)

MaxChunks == 3

-----------------------------------------------------------------------------
(* C1.  Pages for the star-1 tiers: the opening with 1, 2 or 3 stars, then stat blocks *)

StarCounts == {1, 2, 3}

StockFullChunks ==
    { Block(<<"Stock">>, <<"4">>), Block(StarLine(1), <<"7">>), Block(StarLine(2), <<"8">>),
      Block(StarLine(3), <<"6">>), Block(<<"Gold">>, <<"9">>) }

InitStockFull ==
    /\ \E n \in StarCounts, cs \in SeqsUpTo(StockFullChunks, MaxChunks) :
           text = Opening(n) \o Flatten(cs)
    /\ ReadyPage

SpecStockFull == InitStockFull /\ [][NextPage]_vars

StockAndFullShare(star) ==
    \E i, j \in StatIdx :
        /\ car.stat[i].type = "stock" /\ car.stat[j].type = "full"
        /\ car.stat[i].star = star /\ car.stat[j].star = star

\* C1 as stated: in a returned record no stock entry and full entry of stat have the
\* same star.
C1_StockFullNeverCoexist ==
    pagePc = "returned" => \A star \in 1..car.max_star : ~StockAndFullShare(star)

\* C1 amended: stat never holds two entries with the same star and type; a stock and a
\* full entry share a star only at star 1, and they do exactly when a Stock block and a
\* one-star block were both captured and max_star >= 2.
C1_OneEntryPerStarAndType ==
    pagePc = "returned" =>
        /\ \A i, j \in StatIdx :
               i # j => ~(car.stat[i].star = car.stat[j].star
                              /\ car.stat[i].type = car.stat[j].type)
        /\ \A star \in 2..car.max_star : ~StockAndFullShare(star)
        /\ StockAndFullShare(1) <=>
               (CapturedOf("stock") # <<>> /\ CapturedStars(1) # <<>> /\ car.max_star >= 2)

C1_Witness == pagePc = "returned" /\ StockAndFullShare(1)

-----------------------------------------------------------------------------
(* C6.  Pages with several blocks of one tier: a three-star opening with a premium-part *)
(* section, then stat blocks                                                           *)

EpicsSection(n) == <<<<"Epics:">>, <<n, " ", "x", " ", "2", "4", "0">>>>

TierChunks ==
    { Block(<<"Stock">>, <<"4">>), Block(<<"Stock">>, <<"9">>),
      Block(StarLine(1), <<"7">>), Block(StarLine(1), <<"5">>),
      Block(<<"Gold">>, <<"9">>), Block(<<"Gold">>, <<"3">>),
      Block(MaxWoEpics, <<"2">>), Block(MaxWoEpics, <<"6">>) }

InitTiers ==
    /\ \E cs \in SeqsUpTo(TierChunks, MaxChunks) :
           text = Opening(3) \o EpicsSection("2") \o Flatten(cs)
    /\ ReadyPage

SpecTiers == InitTiers /\ [][NextPage]_vars

\* the captured blocks of the tier of a stat entry, in page order
TierBlocks(e) ==
    IF e.type = "full" THEN CapturedStars(e.star)
    ELSE CapturedOf(e.type)

\* C6 as stated: every entry of stat carries the highest rank among the captured blocks
\* of its tier.
C6_HighestRankEveryTier ==
    pagePc = "returned" =>
        \A k \in StatIdx :
            \A b \in 1..Len(TierBlocks(car.stat[k])) :
                TierBlocks(car.stat[k])[b].rank <= car.stat[k].rank

\* C6 amended: a full entry carries the highest rank among the captured star blocks of
\* its star count, whatever their order; the stock, max_wo_epics and gold entries carry
\* the rank of the first captured block of their tier in page order.
C6_HighestStarRankFirstOtherwise ==
    pagePc = "returned" =>
        \A k \in StatIdx :
            LET e == car.stat[k]
                blocks == TierBlocks(e)
            IN /\ blocks # <<>>
               /\ IF e.type = "full"
                  THEN /\ \A b \in 1..Len(blocks) : blocks[b].rank <= e.rank
                       /\ \E b \in 1..Len(blocks) : blocks[b].rank = e.rank
                  ELSE e.rank = blocks[1].rank

C6_Witness ==
    /\ pagePc = "returned"
    /\ \E k \in StatIdx :
           /\ car.stat[k].type = "full"
           /\ Len(TierBlocks(car.stat[k])) >= 2
           /\ TierBlocks(car.stat[k])[1].rank > TierBlocks(car.stat[k])[2].rank
    /\ \E k \in StatIdx : car.stat[k].type # "full"

-----------------------------------------------------------------------------
(* C9.  Pages with and without a premium-part section, before or after the stat blocks *)

EpicsSections ==
    { <<>>,
      EpicsSection("2"),
      EpicsSection("0"),
      <<<<"Epics:">>, <<"x">>>>,
      <<<<"Epics:">>>>,
      EpicsSection("0") \o EpicsSection("2") }

EpicChunks ==
    { Block(MaxWoEpics, <<"6">>), Block(<<"Gold">>, <<"9">>), Block(StarLine(1), <<"7">>),
      Block(<<"Stock">>, <<"4">>) }

InitEpics ==
    /\ \E ep \in EpicsSections, cs \in SeqsUpTo(EpicChunks, MaxChunks), first \in BOOLEAN :
           text = Opening(2) \o (IF first THEN ep \o Flatten(cs) ELSE Flatten(cs) \o ep)
    /\ ReadyPage

SpecEpics == InitEpics /\ [][NextPage]_vars

HasMaxWoEntry ==
    \E k \in StatIdx : car.stat[k].type = "max_wo_epics" /\ car.stat[k].star = car.max_star

\* C9 as stated: stat holds a max_wo_epics entry at max_star exactly when the page has
\* an "Epics:" line and a "Max w/o epics" block was captured.
C9_MaxWoIffEpicsAnchor ==
    pagePc = "returned" =>
        (HasMaxWoEntry <=>
            /\ \E i \in 1..Len(PageLines) : IsEpicsLine(PageLines[i])
            /\ CapturedOf("max_wo_epics") # <<>>)

\* the first integer of the line after the first "Epics:" line, 0 when there is none
EpicQuantity ==
    LET E == {i \in 1..Len(PageLines) : IsEpicsLine(PageLines[i])}
    IN IF E = {} \/ Least(E) + 1 > Len(PageLines) THEN 0
       ELSE FirstInt(PageLines[Least(E) + 1])

\* C9 amended: stat holds a max_wo_epics entry at max_star exactly when the line after
\* the first "Epics:" line holds a positive first integer (epic_importparts_amount > 0)
\* and a "Max w/o epics" block was captured; the entry comes after every stock and full
\* entry, and the gold entry, when there is one, is the next entry.
C9_MaxWoIffEpicQuantity ==
    pagePc = "returned" =>
        /\ car.epic_importparts_amount = EpicQuantity
        /\ HasMaxWoEntry <=> (EpicQuantity > 0 /\ CapturedOf("max_wo_epics") # <<>>)
        /\ \A k \in StatIdx :
               car.stat[k].type = "max_wo_epics" =>
                   /\ car.stat[k].star = car.max_star
                   /\ \A j \in StatIdx :
                          /\ car.stat[j].type \in {"stock", "full"} => j < k
                          /\ car.stat[j].type = "gold" => j = k + 1
                   /\ k = Len(car.stat) \/ car.stat[k + 1].type = "gold"

C9_Witness ==
    /\ pagePc = "returned"
    /\ HasMaxWoEntry
    /\ \E j \in StatIdx : car.stat[j].type = "full"
    /\ \E j \in StatIdx : car.stat[j].type = "gold"

-----------------------------------------------------------------------------
(* C2, C8.  Pages with an upgrade-cost ladder: the opening and a stat block, then star *)
(* lines, closing lines and other lines in any order                                  *)

MaxCostLines == 3

CostLines ==
    { StarLine(1),
      <<"=", " ", "9">>,
      <<"=", " ", "5">>,
      <<"=", " ", "1", ".", "2", "0", "0">>,
      <<"=", " ", "x">>,
      <<"From">> }

InitCost ==
    /\ \E ls \in SeqsUpTo(CostLines, MaxCostLines) :
           text = Opening(2) \o Block(<<"Stock">>, <<"4">>) \o ls
    /\ ReadyPage

SpecCost == InitCost /\ [][NextPage]_vars

StrictlyIncreasing(xs) == \A i \in 2..Len(xs) : xs[i - 1] < xs[i]

\* the lines that close a block: a line starting with "=" with a star line before it
\* and neither a star line nor another "=" line in between
ClosingLines ==
    {i \in 1..Len(PageLines) :
        /\ At(PageLines[i], 1) = "="
        /\ \E j \in 1..(i - 1) :
               /\ IsStarLine(PageLines[j])
               /\ \A k \in (j + 1)..(i - 1) :
                      ~IsStarLine(PageLines[k]) /\ At(PageLines[k], 1) # "="}

\* what the parser reads on a closing line: the digits and commas after "="
ReadTotal(i) == ToInt(parse_number(CostToken(PageLines[i], "=")[1]))
ReadTotals ==
    LET at == Ascending({i \in ClosingLines : CostToken(PageLines[i], "=") # <<>>})
    IN [k \in 1..Len(at) |-> ReadTotal(at[k])]

\* the whole number written on a closing line: the digits, commas and dots after "="
WrittenToken(i) ==
    LET l == PageLines[i]
        P == {p \in 1..Len(l) : l[p] = "=" /\ At(l, SkipSpaces(l, p + 1)) \in NumChars}
    IN IF P = {} THEN <<>>
       ELSE LET d == SkipSpaces(l, Least(P) + 1)
            IN SubSeq(l, d, RunEnd(l, d, NumChars))
WrittenTotal(i) == ToInt(parse_number(WrittenToken(i)))
WrittenTotals ==
    LET at == Ascending({i \in ClosingLines :
                            WrittenToken(i) # <<>> /\ IsValue(parse_number(WrittenToken(i)))})
    IN [k \in 1..Len(at) |-> WrittenTotal(at[k])]

\* C2 as stated: upgrade_cumulative of a returned record is strictly increasing.
C2_CumulativeStrictlyIncreasing ==
    pagePc = "returned" => StrictlyIncreasing(car.upgrade_cumulative)

\* C2 amended: upgrade_cumulative holds the totals read on the closing lines, in page
\* order and unchecked, so it is strictly increasing exactly when those totals are;
\* upgrade_per_star[0] is upgrade_cumulative[0], every later element is the difference
\* of two neighbours, and it is positive exactly where the cumulative value grows.
C2_CumulativeAsRead ==
    pagePc = "returned" =>
        LET cum == car.upgrade_cumulative
            per == car.upgrade_per_star
        IN /\ cum = ReadTotals
           /\ StrictlyIncreasing(cum) <=> StrictlyIncreasing(ReadTotals)
           /\ Len(per) = Len(cum)
           /\ cum # <<>> => per[1] = cum[1]
           /\ \A i \in 2..Len(cum) :
                  /\ per[i] = cum[i] - cum[i - 1]
                  /\ per[i] > 0 <=> cum[i] > cum[i - 1]

C2_Witness ==
    /\ pagePc = "returned"
    /\ Len(car.upgrade_cumulative) >= 2
    /\ car.upgrade_cumulative[2] < car.upgrade_cumulative[1]
    /\ car.upgrade_per_star[2] < 0

\* C8: upgrade_cumulative holds, in page order, one value for each closing line that
\* carries a number, and the value is parse_number of the whole number written there.
C8_WholeNumberRecorded ==
    pagePc = "returned" => car.upgrade_cumulative = WrittenTotals

-----------------------------------------------------------------------------
(* C7.  Pages with one stat header followed by metric lines, other lines and headers *)

MaxBlockLines == 5

BlockLineSet ==
    { SpeedLine, <<"4", ".", "5">>, <<"5", "0">>, <<"abc">>,
      Header(StarLine(1), <<"7">>) }

InitBlock ==
    /\ \E ls \in SeqsUpTo(BlockLineSet, MaxBlockLines) :
           text = Opening(2) \o <<Header(<<"Stock">>, <<"4">>)>> \o ls
    /\ ReadyPage

SpecBlock == InitBlock /\ [][NextPage]_vars

\* the type stat gives to a header's block, and its star
HeaderType(l) == IF HeaderKind(l) = "star" THEN "full" ELSE HeaderKind(l)
HeaderStar(l) ==
    IF HeaderKind(l) = "star" THEN LabelLen(l)
    ELSE IF HeaderKind(l) = "stock" THEN 1 ELSE car.max_star

\* C7: every entry of stat comes from a header whose next 4 lines are non-header lines
\* that each provide a numeric token, and its top_speed, accel, handling and nitro are
\* the parse_number values of those 4 lines in that order.
C7_MetricsFromNextFourLines ==
    pagePc = "returned" =>
        \A k \in StatIdx :
            \E h \in 1..Len(PageLines) :
                /\ IsHeader(PageLines[h])
                /\ HeaderType(PageLines[h]) = car.stat[k].type
                /\ HeaderStar(PageLines[h]) = car.stat[k].star
                /\ HeaderRank(PageLines[h]) = car.stat[k].rank
                /\ h + 4 <= Len(PageLines)
                /\ \A m \in 1..4 :
                       /\ ~IsHeader(PageLines[h + m])
                       /\ MetricToken(PageLines[h + m]) # <<>>
                /\ car.stat[k].top_speed = ToFloat(parse_number(MetricToken(PageLines[h + 1])[1]))
                /\ car.stat[k].accel = ToFloat(parse_number(MetricToken(PageLines[h + 2])[1]))
                /\ car.stat[k].handling = ToFloat(parse_number(MetricToken(PageLines[h + 3])[1]))
                /\ car.stat[k].nitro = ToFloat(parse_number(MetricToken(PageLines[h + 4])[1]))

-----------------------------------------------------------------------------
(* C5.  Pages with unlock-cost lines: the opening and a stat block, then lines with   *)
(* runs, totals and key glyphs in any order                                           *)

MaxUnlockLines == 3

UnlockLines ==
    { <<"5", "/", "8", "/", "3", "0">>,
      <<"5", "/", "8">>,
      <<"x", " ", "5", "/", "8">>,
      <<Key, "/", "4", "/", "5">>,
      <<Key, "/", "4", "/", "5", "/", "6">>,
      <<"(", "4", "3", ")">>,
      <<"(", Key, " ", "+", " ", "3", "0", "0", ")">>,
      <<"5", "/", "8", "/", "3", "0", " ", "(", "4", "3", ")">> }

InitUnlock ==
    /\ \E ls \in SeqsUpTo(UnlockLines, MaxUnlockLines) :
           text = Opening(2) \o Block(<<"Stock">>, <<"4">>) \o ls
    /\ ReadyPage

SpecUnlock == InitUnlock /\ [][NextPage]_vars

HasKey(l) == \E k \in 1..Len(l) : l[k] = Key

\* a slash-separated run of two or more integers in the line
HasRun(l) == \E p \in 1..Len(l) : l[p] = "/" /\ IsDigit(At(l, p - 1)) /\ IsDigit(At(l, p + 1))

\* C5: the first line that contains a slash-separated run of two or more integers
\* decides the unlock fields; unlock_method is none exactly when no line has a run.
C5_FirstRunLineDecides ==
    pagePc = "returned" =>
        LET R == {i \in 1..Len(PageLines) : HasRun(PageLines[i])}
            l == PageLines[Least(R)]
            nxt == IF Least(R) + 1 <= Len(PageLines) THEN PageLines[Least(R) + 1] ELSE <<>>
        IN IF R = {} THEN car.unlock_method = "none" /\ car.bp_requirements = <<>>
           ELSE /\ car.bp_requirements = FirstRunInts(l)
                /\ car.bp_all = (IF ParenTotal(l) # <<>> THEN ParenTotal(l) ELSE ParenTotal(nxt))
                /\ car.unlock_method = (IF HasKey(l) \/ HasKey(nxt) THEN "key" ELSE "bp")

-----------------------------------------------------------------------------
(* C3.  Pages made of any subset of the sections of a template, in the template's     *)
(* order: the three required sections, the four optional ones, a block with only      *)
(* three metrics, a block with a token parse_number rejects, and a blank line         *)

FuelSection == <<<<Fuel, " ", "6", " ", "fuels">>>>
UnlockSection == <<<<"5", "/", "8", "/", "3", "0">>>>
PricedEpicsSection == EpicsSection("2") \o <<<<"1", ",", "9", "2", "0">>>>
TotalSection == <<<<"Total:", " ", "7", "0">>>>
ShortBlock == SubSeq(Block(<<"Gold">>, <<"9">>), 1, 4)
RejectedBlock == <<Header(StarLine(1), <<"7">>), <<"x", ",", " ", "y">>>>
BlankLine == <<<<" ", Nbsp>>>>

Templates ==
    { <<<<ClassLine>>, <<NameLine>>, <<StarLine(2)>>, FuelSection, UnlockSection,
        PricedEpicsSection, Block(<<"Stock">>, <<"4">>), ShortBlock, RejectedBlock,
        TotalSection, BlankLine>>,
      <<TotalSection, <<StarLine(2)>>, ShortBlock, Block(<<"Stock">>, <<"4">>),
        PricedEpicsSection, FuelSection, RejectedBlock, UnlockSection, <<ClassLine>>,
        BlankLine, <<NameLine>>>> }

\* the sections of the template that the mask keeps
RECURSIVE Kept(_, _)
Kept(tpl, mask) ==
    IF tpl = <<>> THEN <<>>
    ELSE Kept(SubSeq(tpl, 1, Len(tpl) - 1), mask)
             \o (IF mask[Len(tpl)] THEN tpl[Len(tpl)] ELSE <<>>)

InitSections ==
    /\ \E tpl \in Templates :
           \E mask \in [1..Len(tpl) -> BOOLEAN] : text = Kept(tpl, mask)
    /\ ReadyPage

SpecSections == InitSections /\ [][NextPage]_vars

HasClassAndName ==
    \E i \in 1..Len(PageLines) : IsClassLine(PageLines[i]) /\ i + 1 <= Len(PageLines)

HasStarCount == \E i \in 1..Len(PageLines) : IsStarLine(PageLines[i])

\* the last line of the block of the header at line h: the line before the next header
BlockEnd(h) ==
    LET H == {k \in (h + 1)..Len(PageLines) : IsHeader(PageLines[k])}
    IN IF H = {} THEN Len(PageLines) ELSE Least(H) - 1

\* a header whose block has four lines with a numeric token
HasCapturedBlock ==
    \E h \in 1..Len(PageLines) :
        /\ IsHeader(PageLines[h])
        /\ Cardinality({k \in (h + 1)..BlockEnd(h) : MetricToken(PageLines[k]) # <<>>}) >= 4

NoFuelLine == \A i \in 1..Len(PageLines) : ~IsFuelLine(PageLines[i])
NoRunLine == \A i \in 1..Len(PageLines) : ~HasRun(Without(PageLines[i], {Key, "+"}))
NoEpicsLine == \A i \in 1..Len(PageLines) : ~IsEpicsLine(PageLines[i])
NoTotalLine == \A i \in 1..Len(PageLines) : ~IsTotalLine(PageLines[i])

\* C3: when no ValueError of parse_number leaves the call, parse_mei_page raises
\* exactly when the class and name lines, the star line or every captured stat block is
\* absent; a returned record has fuel unset without a fuel line, no requirements and
\* unlock_method none without a run line, epic amount and price 0 without an "Epics:"
\* line, and upgrade_all unset without a "Total:" line.
C3_RaisesIffRequiredSectionAbsent ==
    (pagePc \in {"returned", "raised"} /\ pageErr # "number") =>
        /\ pagePc = "raised" <=> ~(HasClassAndName /\ HasStarCount /\ HasCapturedBlock)
        /\ pagePc = "returned" =>
               /\ NoFuelLine => car.fuel = <<>>
               /\ NoRunLine => car.bp_requirements = <<>> /\ car.unlock_method = "none"
               /\ NoEpicsLine =>
                      car.epic_importparts_amount = 0 /\ car.epic_price = IntValue(0)
               /\ NoTotalLine => car.upgrade_all = <<>>

C3_Witness ==
    /\ pagePc = "returned"
    /\ NoFuelLine /\ NoRunLine /\ NoEpicsLine /\ NoTotalLine
    /\ car.fuel = <<>> /\ car.unlock_method = "none" /\ car.upgrade_all = <<>>

-----------------------------------------------------------------------------
(* C4 *)

DigitGroups(w, sep) ==
    \A i \in 1..Len(Split(w, sep)) : Split(w, sep)[i] # <<>> /\ AllDigits(Split(w, sep)[i])

\* the four formats: thousand-dot groups, digits,digits, comma groups of at most three
\* digits after the first, plain digits or digits.digits
InFourFormats(w) ==
    \/ /\ DigitGroups(w, ".")
       /\ Len(Split(w, ".")) >= 2
       /\ Len(Split(w, ".")[1]) <= 3
       /\ \A i \in 2..Len(Split(w, ".")) : Len(Split(w, ".")[i]) = 3
    \/ DigitGroups(w, ",") /\ Len(Split(w, ",")) = 2
    \/ /\ DigitGroups(w, ",")
       /\ Len(Split(w, ",")) >= 3
       /\ \A i \in 2..Len(Split(w, ",")) : Len(Split(w, ",")[i]) <= 3
    \/ w # <<>> /\ AllDigits(w)
    \/ DigitGroups(w, ".") /\ Len(Split(w, ".")) = 2

\* C4: parse_number returns a value only for a string in one of the four formats; every
\* other string fails.
C4_OnlyFourFormats ==
    (numPc = "done" /\ IsValue(numResult)) => InFourFormats(Strip(s))

-----------------------------------------------------------------------------
(* The batch loop of __main__ *)

MaxCarId == 3

\* what fetch_mei_html can give for an id: a page that parses, a page with no stat
\* block, a page with no class line
SitePages ==
    { Opening(2) \o Block(<<"Stock">>, <<"4">>),
      Opening(2),
      <<StarLine(2)>> }

Init ==
    /\ \E S \in SUBSET (1..MaxCarId) : S # {} /\ car_ids = Ascending(S)
    /\ idx = 0
    /\ results = <<>>
    /\ errors = <<>>
    /\ log = <<>>
    /\ mainPc = "loop"
    /\ IdleNum
    /\ IdlePage

\* results.sort(key=lambda c: c.get("id", 0)): a stable sort by id
RECURSIVE SortById(_)
SortById(rs) ==
    IF rs = <<>> THEN <<>>
    ELSE LET front == SortById(SubSeq(rs, 1, Len(rs) - 1))
             r == rs[Len(rs)]
             k == Cardinality({i \in 1..Len(front) : front[i].id <= r.id})
         IN SubSeq(front, 1, k) \o <<r>> \o SubSeq(front, k + 1, Len(front))

\* the try body after parse_mei_car gave r for cid: results.append(car), print [OK ]
AppendResult(cid, r) ==
    /\ r.raised = ""
    /\ results' = Append(results, r.car)
    /\ log' = Append(log, <<"OK", cid>>)

\* one pass of the for loop whose parse_mei_car call returns
ProcessOk ==
    /\ mainPc = "loop"
    /\ idx < Len(car_ids)
    /\ \E page \in SitePages :
           AppendResult(car_ids[idx + 1], parse_mei_page(page, car_ids[idx + 1]))
    /\ idx' = idx + 1
    /\ UNCHANGED <<car_ids, errors, mainPc, numVars, pageVars>>

\* faulty variant of ProcessErr: the exception is recorded but ends the loop
ProcessErrStops ==
    /\ mainPc = "loop"
    /\ idx < Len(car_ids)
    /\ \E why \in {"fetch"} :
           /\ errors' = Append(errors, <<car_ids[idx + 1], why>>)
           /\ log' = Append(log, <<"ERR", car_ids[idx + 1]>>)
    /\ idx' = idx + 1
    /\ mainPc' = "done"
    /\ UNCHANGED <<car_ids, results, numVars, pageVars>>

\* one pass of the for loop whose parse_mei_car call raises, in the fetch ("fetch") or
\* in parse_mei_page: the except clause records the id and the loop goes on
ProcessErr ==
    /\ mainPc = "loop"
    /\ idx < Len(car_ids)
    /\ \E why \in {"fetch"} \cup {parse_mei_page(page, car_ids[idx + 1]).raised : page \in SitePages} :
           /\ why # ""
           /\ errors' = Append(errors, <<car_ids[idx + 1], why>>)
           /\ log' = Append(log, <<"ERR", car_ids[idx + 1]>>)
    /\ idx' = idx + 1
    /\ UNCHANGED <<car_ids, results, mainPc, numVars, pageVars>>

\* the end of the loop: results are sorted by id and written out
Finish ==
    /\ mainPc = "loop"
    /\ idx = Len(car_ids)
    /\ results' = SortById(results)
    /\ mainPc' = "done"
    /\ UNCHANGED <<car_ids, idx, errors, log, numVars, pageVars>>

Next == ProcessOk \/ ProcessErr \/ Finish

Spec == Init /\ [][Next]_vars

ResultIds == {results[i].id : i \in 1..Len(results)}
ErrorIds == {errors[i][1] : i \in 1..Len(errors)}

\* C10: the ids are taken once each in ascending order whatever fails; when the loop
\* has ended every requested id is in exactly one of results and errors, successes and
\* failures add up to the number of ids, and results is in ascending order of id.
C10_EveryIdOnceFailuresIsolated ==
    /\ Len(log) = idx
    /\ \A i \in 1..Len(log) : log[i][2] = car_ids[i]
    /\ mainPc = "done" =>
           /\ idx = Len(car_ids)
           /\ \A i \in 1..Len(car_ids) :
                  (car_ids[i] \in ResultIds) # (car_ids[i] \in ErrorIds)
           /\ Len(results) + Len(errors) = Len(car_ids)
           /\ \A i \in 2..Len(results) : results[i - 1].id < results[i].id

C10_Witness ==
    /\ mainPc = "done"
    /\ \E e \in ErrorIds : \E r \in ResultIds : e < r
    /\ Len(errors) >= 2

====
